---- MODULE Spec2Model ----
(***************************************************************************)
(* Dependency-graph analysis core of the onboarding backend:               *)
(*   app/services/impact.py          ImpactAnalysisService                 *)
(*   app/agents/change_impact.py     ChangeImpactAgent                     *)
(*   app/agents/code_intelligence.py CodeIntelligenceAgent                 *)
(*   app/models/graph.py             CodeNode, GraphEdge, CodeGraph        *)
(*                                                                         *)
(* A Python str is a sequence of one-character strings, so that            *)
(* "query in node" is a real substring test.  A networkx DiGraph is its    *)
(* node list in insertion order plus its set of (source, target) pairs:    *)
(* a DiGraph keeps one edge per ordered pair.  Edge and node attributes    *)
(* stored on the DiGraph are never read back by the code and are left out. *)
(***************************************************************************)
EXTENDS Integers, Sequences, FiniteSets, TLC

VARIABLES
    file_tree,      \* the file list handed to build_graph
    code_graph,     \* the CodeGraph an analysis is called with / a builder returned
    op,             \* name of the last operation that ran, "idle" before any
    args,           \* the arguments of the last operation
    result,         \* what the last operation returned
    agent           \* the fields of the CodeIntelligenceAgent instance

vars == <<file_tree, code_graph, op, args, result, agent>>

-----------------------------------------------------------------------------
(* Bounds of the model *)

MaxNodes == 2       \* entries in a request's node list
MaxEdges == 2       \* entries in a request's edge list
MaxChain == 22      \* modules in an import chain
MaxFan == 7         \* largest fan-in / fan-out handed to _calculate_risk
MaxImports == 2     \* import statements per file
MaxWalk == 2        \* nodes of a file that ast.walk hands to the service
MaxLoc == 560       \* lines of a module
MaxDeps == 20       \* imports of one module in a fan graph

-----------------------------------------------------------------------------
(* Values *)

\* Python's None: a value that is no string.
None == <<"None">>

\* bool(x) is False for None and for the empty string ("if not target").
Falsy(x) == x = None \/ x = <<>>

A == <<"a">>
AB == <<"a", "b">>
Z == <<"z">>
EMPTY == <<>>

\* The ids requests and file trees are drawn from: "a" is a substring of "ab".
Ids == {A, AB}

\* "x" repeated n times: the ids of an import chain.
Rep(n) == [i \in 1..n |-> "x"]

Range(s) == {s[i] : i \in 1..Len(s)}

SeqsUpTo(S, n) == UNION {[1..k -> S] : k \in 0..n}

\* Python: q in s, for strings.
IsSubstring(q, s) ==
    \E i \in 0..(Len(s) - Len(q)) : SubSeq(s, i + 1, i + Len(q)) = q

-----------------------------------------------------------------------------
(* app/models/graph.py *)

MODULE_T == "module"
FUNCTION_T == "function"
CLASS_T == "class"
CONCEPT_T == "concept"
IMPORTS == "imports"
DEFINES == "defines"

CodeNode(id, type, name, path, metadata) ==
    [id |-> id, type |-> type, name |-> name, path |-> path, metadata |-> metadata]

GraphEdge(source, target, type) ==
    [source |-> source, target |-> target, type |-> type]

CodeGraph(nodes, edges) == [nodes |-> nodes, edges |-> edges]

NoMetadata == [none |-> TRUE]

-----------------------------------------------------------------------------
(* networkx.DiGraph, as the services use it *)

\* Keys of a dict in insertion order: each value at its first occurrence.
\* G.add_node(n) and G.add_edge(u, v) insert a node only when it is missing,
\* so a node already present keeps its place.
InsertionOrder(all) ==
    LET firsts == {i \in 1..Len(all) : \A j \in 1..(i - 1) : all[j] # all[i]}
    IN  [k \in 1..Cardinality(firsts) |->
            all[CHOOSE i \in firsts : Cardinality({j \in firsts : j <= i}) = k]]

\* The node arguments of the calls G.add_edge(e.source, e.target), in call
\* order: add_edge inserts u, then v.
Endpoints(edges) ==
    [i \in 1..(2 * Len(edges)) |->
        IF i % 2 = 1 THEN edges[(i + 1) \div 2].source ELSE edges[i \div 2].target]

\* G = nx.DiGraph(); G.add_node(n.id) for each node; G.add_edge(e.source,
\* e.target) for each edge: one edge per ordered pair, parallel edges collapse.
DiGraph(nodes, edges) ==
    [nodes |-> InsertionOrder([i \in 1..Len(nodes) |-> nodes[i].id] \o Endpoints(edges)),
     adj |-> {<<e.source, e.target>> : e \in Range(edges)}]

predecessors(G, n) == {e[1] : e \in {x \in G.adj : x[2] = n}}

\* Breadth-first search over reversed edges: each node enters visited once.
RECURSIVE bfs_reverse(_, _, _)
bfs_reverse(G, visited, frontier) ==
    IF frontier = {} THEN visited
    ELSE LET next == (UNION {predecessors(G, c) : c \in frontier}) \ visited
         IN  bfs_reverse(G, visited \cup next, next)

\* A traversal that does not exclude the start node: the start node is
\* reported whenever it lies on a cycle.
ancestors_with_source(G, source) ==
    LET first == predecessors(G, source)
    IN  bfs_reverse(G, first, first)

\* A traversal that stops after the direct predecessors.
ancestors_direct_only(G, source) == predecessors(G, source) \ {source}

\* nx.ancestors(G, source): every node with a path to source, source excluded.
ancestors(G, source) == bfs_reverse(G, {source}, {source}) \ {source}

\* list(a_set): the iteration order of a Python set is unspecified; the list
\* is taken in node order.  No operation below depends on the order.
list_of(G, S) == SelectSeq(G.nodes, LAMBDA n : n \in S)

-----------------------------------------------------------------------------
(* app/services/impact.py *)

\* The first node, in insertion order, among those at the given indices; None
\* when there is none: the loop returns at its first hit.
first_node(nodes, hits) ==
    IF hits = {} THEN None
    ELSE nodes[CHOOSE i \in hits : \A j \in hits : i <= j]

\* ImpactAnalysisService.match_node
match_node(G, query) ==
    first_node(G.nodes,
               {i \in 1..Len(G.nodes) :
                   query = G.nodes[i] \/ IsSubstring(query, G.nodes[i])})

\* Thresholds applied with >= instead of >.
risk_level_inclusive(risk_score) ==
    IF risk_score >= 20 THEN "HIGH" ELSE IF risk_score >= 5 THEN "MEDIUM" ELSE "LOW"

\* risk_level of calculate_impact: the second test overrides the first.
risk_level_of(risk_score) ==
    LET first == IF risk_score > 5 THEN "MEDIUM" ELSE "LOW"
    IN  IF risk_score > 20 THEN "HIGH" ELSE first

\* The DiGraph calculate_impact rebuilds from the CodeGraph.
reconstruct_graph(code_graph_data) ==
    DiGraph(code_graph_data.nodes, code_graph_data.edges)

NotFound == [error |-> "Module not found in graph"]

\* An analysis that leaves the target out of the affected list.
calculate_impact_without_self(code_graph_data, changed_file_or_module) ==
    LET G == reconstruct_graph(code_graph_data)
        target_node == match_node(G, changed_file_or_module)
    IN  IF Falsy(target_node) THEN NotFound
        ELSE LET affected_nodes == list_of(G, ancestors(G, target_node))
             IN  [target_node |-> target_node,
                  impact_radius |-> Len(affected_nodes),
                  risk_level |-> risk_level_of(Len(affected_nodes)),
                  affected_modules |-> affected_nodes]

\* ImpactAnalysisService.calculate_impact
calculate_impact(code_graph_data, changed_file_or_module) ==
    LET G == reconstruct_graph(code_graph_data)
        target_node == match_node(G, changed_file_or_module)
    IN  IF Falsy(target_node) THEN NotFound
        ELSE LET affected_nodes ==
                     Append(list_of(G, ancestors(G, target_node)), target_node)
             IN  [target_node |-> target_node,
                  impact_radius |-> Len(affected_nodes),
                  risk_level |-> risk_level_of(Len(affected_nodes)),
                  affected_modules |-> affected_nodes]

\* A service that writes its finding into the metadata of the nodes it was given.
calculate_impact_call_annotating(code_graph_data, changed_file_or_module) ==
    [code_graph_data |->
        [code_graph_data EXCEPT !.nodes =
            [i \in 1..Len(code_graph_data.nodes) |->
                [code_graph_data.nodes[i] EXCEPT !.metadata = [analysed |-> TRUE]]]],
     returned |-> calculate_impact(code_graph_data, changed_file_or_module)]

\* A call of calculate_impact: the caller's CodeGraph after the call, and the
\* dict returned.  The method reads code_graph_data and assigns to nothing in
\* it: G gets copies of the fields (model_dump).
calculate_impact_call(code_graph_data, changed_file_or_module) ==
    [code_graph_data |-> code_graph_data,
     returned |-> calculate_impact(code_graph_data, changed_file_or_module)]

-----------------------------------------------------------------------------
(* app/agents/change_impact.py *)

\* The DiGraph _calculate_impact rebuilds from the CodeGraph.
agent_reconstruct_graph(code_graph_data) ==
    DiGraph(code_graph_data.nodes, code_graph_data.edges)

\* A lookup that takes a node only when its id equals the query.
agent_target_exact(G, changed_node_id) ==
    first_node(G.nodes, {i \in 1..Len(G.nodes) : changed_node_id = G.nodes[i]})

\* next((n for n in G.nodes if changed_node_id in n), None)
agent_target(G, changed_node_id) ==
    first_node(G.nodes, {i \in 1..Len(G.nodes) : IsSubstring(changed_node_id, G.nodes[i])})

\* ChangeImpactAgent._calculate_impact
_calculate_impact(code_graph_data, changed_node_id) ==
    LET G == agent_reconstruct_graph(code_graph_data)
        target == agent_target(G, changed_node_id)
    IN  IF Falsy(target) THEN <<>>
        ELSE list_of(G, ancestors(G, target))

\* vertex.generate_text(prompt): text of the hosted model, opaque here.
generate_text(changed_module, affected_modules) == "generated risk explanation"

\* ChangeImpactAgent.analyze
analyze(changed_module, code_graph_data) ==
    LET affected_modules == _calculate_impact(code_graph_data, changed_module)
        risk_explanation ==
            IF affected_modules # <<>>
            THEN generate_text(changed_module,
                               SubSeq(affected_modules, 1,
                                      IF Len(affected_modules) < 10
                                      THEN Len(affected_modules) ELSE 10))
            ELSE "No downstream dependencies found."
    IN  [target |-> changed_module,
         affected |-> affected_modules,
         risk_analysis |-> risk_explanation]

-----------------------------------------------------------------------------
(* app/agents/code_intelligence.py *)

\* A test order that looks at fan_out before fan_in.
_calculate_risk_fan_out_first(fan_in, fan_out) ==
    IF fan_in > 5 /\ fan_out > 5 THEN "critical"
    ELSE IF fan_out > 5 THEN "medium"
    ELSE IF fan_in > 3 THEN "high"
    ELSE "low"

\* CodeIntelligenceAgent._calculate_risk
_calculate_risk(fan_in, fan_out) ==
    IF fan_in > 5 /\ fan_out > 5 THEN "critical"
    ELSE IF fan_in > 3 THEN "high"
    ELSE IF fan_out > 5 THEN "medium"
    ELSE "low"

\* os.path.basename: what follows the last "/".
basename(path) ==
    LET slashes == {i \in 1..Len(path) : path[i] = "/"}
        last == IF slashes = {} THEN 0 ELSE CHOOSE i \in slashes : \A j \in slashes : j <= i
    IN  SubSeq(path, last + 1, Len(path))

\* The edges one file contributes: one per imported name, none for an import
\* statement that names no module ("from . import x").
import_edges(module_id, imports) ==
    LET named == SelectSeq(imports, LAMBDA name : name # None)
    IN  [i \in 1..Len(named) |-> GraphEdge(module_id, named[i], IMPORTS)]

\* A builder that gives every imported name a placeholder module node.
agent_process_python_file_with_placeholders(file, graph) ==
    IF ~file.parses THEN graph
    ELSE LET edges == import_edges(file.path, file.imports)
         IN  CodeGraph(
                 Append(graph.nodes,
                        CodeNode(file.path, MODULE_T, basename(file.path), file.path,
                                 [risk |-> "unknown", embedding |-> <<>>]))
                     \o [i \in 1..Len(edges) |->
                            CodeNode(edges[i].target, MODULE_T, edges[i].target,
                                     edges[i].target,
                                     [risk |-> "unknown", embedding |-> <<>>])],
                 graph.edges \o edges)

\* CodeIntelligenceAgent._process_python_file: a file that cannot be opened or
\* parsed raises before anything is appended, and the exception is swallowed.
agent_process_python_file(file, graph) ==
    IF ~file.parses THEN graph
    ELSE CodeGraph(
            Append(graph.nodes,
                   CodeNode(file.path, MODULE_T, basename(file.path), file.path,
                            [risk |-> "unknown", embedding |-> <<>>])),
            graph.edges \o import_edges(file.path, file.imports))

\* for file_info in file_tree[1..i]: if python, _process_python_file(...)
RECURSIVE agent_parse_files(_, _)
agent_parse_files(tree, i) ==
    IF i = 0 THEN CodeGraph(<<>>, <<>>)
    ELSE LET before == agent_parse_files(tree, i - 1)
         IN  IF tree[i].language = "python"
             THEN agent_process_python_file(tree[i], before)
             ELSE before

\* temp_graph.in_degree(n) / out_degree(n): the edges into / out of n.  A
\* DiGraph holds one edge per ordered pair, so these are the numbers of
\* predecessors / successors, a self-loop counting once in each.
in_degree(G, n) == Cardinality({e \in G.adj : e[2] = n})
out_degree(G, n) == Cardinality({e \in G.adj : e[1] = n})

\* A graph that keeps parallel edges apart (nx.MultiDiGraph): the i-th
\* add_edge call is an edge of its own.
MultiDiGraph(nodes, edges) ==
    [nodes |-> InsertionOrder([i \in 1..Len(nodes) |-> nodes[i].id] \o Endpoints(edges)),
     adj |-> {<<edges[i].source, edges[i].target, i>> : i \in 1..Len(edges)}]

\* The temporary networkx graph build_graph analyses.
temp_graph_of(nodes, edges) == DiGraph(nodes, edges)

\* CodeIntelligenceAgent.build_graph; n_embeddings is the length of the list
\* vertex.get_embeddings returned: one vector per node, or none when it failed.
build_graph(tree, n_embeddings) ==
    LET parsed == agent_parse_files(tree, Len(tree))
        nodes == parsed.nodes
        edges == parsed.edges
        temp_graph == temp_graph_of(nodes, edges)
        annotate(i) ==
            LET node == nodes[i]
                fan_in == IF node.id \in Range(temp_graph.nodes)
                          THEN in_degree(temp_graph, node.id) ELSE 0
                fan_out == IF node.id \in Range(temp_graph.nodes)
                           THEN out_degree(temp_graph, node.id) ELSE 0
            IN  [node EXCEPT !.metadata =
                    [risk |-> "unknown",
                     embedding |-> IF i <= n_embeddings THEN <<"vector">> ELSE <<>>,
                     risk_score |-> _calculate_risk(fan_in, fan_out),
                     metrics |-> [fan_in |-> fan_in, fan_out |-> fan_out]]]
    IN  CodeGraph([i \in 1..Len(nodes) |-> annotate(i)], edges)

\* CodeIntelligenceAgent.__init__: self.graph = nx.DiGraph() (self.vertex is the
\* client of the hosted model, which the node order, edges and metrics never
\* depend on).
NewAgent == [graph |-> DiGraph(<<>>, <<>>)]

\* The files an agent has seen in earlier calls, for a builder that keeps them.
files_seen(self) == IF "files" \in DOMAIN self THEN self.files ELSE <<>>

\* A builder that keeps what it parsed on the instance and builds on top of it.
build_graph_call_accumulating(self, tree, n_embeddings) ==
    [self |-> [graph |-> self.graph, files |-> files_seen(self) \o tree],
     returned |-> build_graph(files_seen(self) \o tree, n_embeddings)]

\* A call of build_graph on the instance self: the fields of the instance after
\* the call, and the CodeGraph returned.  build_graph assigns to locals only.
build_graph_call(self, tree, n_embeddings) ==
    [self |-> self, returned |-> build_graph(tree, n_embeddings)]

-----------------------------------------------------------------------------
(* app/services/intelligence.py *)

\* f"{module_id}::{node.name}"
func_id_of(module_id, name) == module_id \o <<":", ":">> \o name

\* What one node met by ast.walk appends: an Import or ImportFrom that names a
\* module appends an imports edge, a FunctionDef (at any depth) appends a
\* function node and a defines edge, anything else appends nothing.
walk_step(module_id, rel_path, item, graph) ==
    IF item.kind = "Import" /\ item.name # None
    THEN CodeGraph(graph.nodes,
                   Append(graph.edges, GraphEdge(module_id, item.name, IMPORTS)))
    ELSE IF item.kind = "FunctionDef"
    THEN CodeGraph(Append(graph.nodes,
                          CodeNode(func_id_of(module_id, item.name), FUNCTION_T,
                                   item.name, rel_path, NoMetadata)),
                   Append(graph.edges,
                          GraphEdge(module_id, func_id_of(module_id, item.name),
                                    DEFINES)))
    ELSE graph

\* for node in ast.walk(tree)[1..k]: ...
RECURSIVE walk_file(_, _, _, _)
walk_file(module_id, rel_path, walk, graph) ==
    IF walk = <<>> THEN graph
    ELSE walk_file(module_id, rel_path, Tail(walk),
                   walk_step(module_id, rel_path, Head(walk), graph))

\* A builder that appends the module node ahead of reading and parsing, so
\* that the node of a file that fails stays in the list.
service_process_python_file_node_first(file, graph) ==
    LET started == CodeGraph(Append(graph.nodes,
                                    CodeNode(file.path, MODULE_T, basename(file.path),
                                             file.path, [loc |-> file.loc])),
                             graph.edges)
    IN  IF ~file.parses THEN started
        ELSE walk_file(file.path, file.path, file.walk, started)

\* CodeIntelligenceService._process_python_file: a file that cannot be opened
\* or parsed raises before anything is appended; the exception is printed.
service_process_python_file(file, graph) ==
    IF ~file.parses THEN graph
    ELSE walk_file(file.path, file.path, file.walk,
                   CodeGraph(Append(graph.nodes,
                                    CodeNode(file.path, MODULE_T, basename(file.path),
                                             file.path, [loc |-> file.loc])),
                             graph.edges))

\* A loop that processes every file, whatever its language.
RECURSIVE service_parse_files_any_language(_, _)
service_parse_files_any_language(tree, i) ==
    IF i = 0 THEN CodeGraph(<<>>, <<>>)
    ELSE service_process_python_file(
             tree[i], service_parse_files_any_language(tree, i - 1))

\* for file_info in file_tree[1..i]: if python, _process_python_file(...)
RECURSIVE service_parse_files(_, _)
service_parse_files(tree, i) ==
    IF i = 0 THEN CodeGraph(<<>>, <<>>)
    ELSE LET before == service_parse_files(tree, i - 1)
         IN  IF tree[i].language = "python"
             THEN service_process_python_file(tree[i], before)
             ELSE before

\* CodeIntelligenceService.build_dependency_graph
build_dependency_graph(tree) == service_parse_files(tree, Len(tree))

-----------------------------------------------------------------------------
(* app/services/learning_graph.py *)

DEPENDS_ON == "depends_on"

min(a, b) == IF a <= b THEN a ELSE b
max(a, b) == IF a >= b THEN a ELSE b

\* str(n) of a natural number: its decimal digits.
RECURSIVE str(_)
str(n) ==
    LET digit == <<"0", "1", "2", "3", "4", "5", "6", "7", "8", "9">>[(n % 10) + 1]
    IN  IF n < 10 THEN <<digit>> ELSE Append(str(n \div 10), digit)

\* The text pieces of the f-strings.
CONCEPT_ ==
    <<"c", "o", "n", "c", "e", "p", "t", "_">>
UNDERSTANDING_ ==
    <<"U", "n", "d", "e", "r", "s", "t", "a", "n", "d", "i", "n", "g", " ">>
LEARN_ABOUT_ ==
    <<"L", "e", "a", "r", "n", " ", "a", "b", "o", "u", "t", " ", "t", "h",
    "e", " ", "m", "o", "d", "u", "l", "e", " ">>
LOC_ ==
    <<".", " ", "L", "O", "C", ":", " ">>
DEPS_ ==
    <<",", " ", "D", "e", "p", "s", ":", " ">>
BEGINNER_SAFE ==
    <<" ", "(", "B", "e", "g", "i", "n", "n", "e", "r", " ", "S", "a", "f",
    "e", ")">>

LearningNode(id, concept_name, difficulty, cognitive_load, description, related) ==
    [id |-> id, concept_name |-> concept_name, difficulty |-> difficulty,
     cognitive_load |-> cognitive_load, description |-> description,
     related_code_nodes |-> related]

LearningPath(nodes, edges, entry_points) ==
    [nodes |-> nodes, edges |-> edges, entry_points |-> entry_points]

\* dependencies[id] after the counting loop: the imports edges whose source is
\* id, each entry of the edge list counting.
dependencies(code_graph_data, id) ==
    Cardinality({i \in 1..Len(code_graph_data.edges) :
                    /\ code_graph_data.edges[i].type = IMPORTS
                    /\ code_graph_data.edges[i].source = id})

\* node.metadata.get("loc", 0)
loc_of(node) ==
    IF "loc" \in DOMAIN node.metadata THEN node.metadata.loc ELSE 0

\* A difficulty without the clamp.
diff_score_unclamped(loc) == loc \div 50

\* diff_score = min(10, max(1, int(loc / 50)))
diff_score_of(loc) == min(10, max(1, loc \div 50))

\* cog_load = min(10, max(1, diff_score + int(dep_count / 2)))
cog_load_of(diff_score, dep_count) ==
    min(10, max(1, diff_score + (dep_count \div 2)))

\* is_safe = diff_score <= 3 and dep_count <= 2
is_safe_of(diff_score, dep_count) == diff_score <= 3 /\ dep_count <= 2

description_of(path, loc, dep_count, is_safe) ==
    LEARN_ABOUT_ \o path \o LOC_ \o str(loc) \o DEPS_ \o str(dep_count)
        \o (IF is_safe THEN BEGINNER_SAFE ELSE <<>>)

\* The LearningNode made for a module node.
learning_node_of(code_graph_data, node) ==
    LET loc == loc_of(node)
        dep_count == dependencies(code_graph_data, node.id)
        diff_score == diff_score_of(loc)
        cog_load == cog_load_of(diff_score, dep_count)
        is_safe == is_safe_of(diff_score, dep_count)
    IN  LearningNode(CONCEPT_ \o node.id, UNDERSTANDING_ \o node.name,
                     diff_score, cog_load,
                     description_of(node.path, loc, dep_count, is_safe),
                     <<node.id>>)

\* A test that makes a concept of every node.
makes_concept_of_any(node) == TRUE

\* if node.type == "module"
makes_concept(node) == node.type = MODULE_T

learning_nodes_of(code_graph_data) ==
    LET modules == SelectSeq(code_graph_data.nodes, makes_concept)
    IN  [i \in 1..Len(modules) |-> learning_node_of(code_graph_data, modules[i])]

\* A lookup that answers with a concept id for every id.
code_to_learning_any(code_graph_data, id) == CONCEPT_ \o id

\* code_to_learning.get(id): the concept id of the module node with that id,
\* None when no module node has it.
code_to_learning(code_graph_data, id) ==
    IF \E n \in Range(code_graph_data.nodes) : makes_concept(n) /\ n.id = id
    THEN CONCEPT_ \o id
    ELSE None

\* An edge loop that asks for the source's concept only.
learning_edges_of_unresolved(code_graph_data) ==
    LET modules == {n.id : n \in {x \in Range(code_graph_data.nodes) : x.type = MODULE_T}}
        kept == SelectSeq(code_graph_data.edges,
                          LAMBDA e : e.type = IMPORTS /\ e.source \in modules)
    IN  [i \in 1..Len(kept) |->
            GraphEdge(CONCEPT_ \o kept[i].target, CONCEPT_ \o kept[i].source,
                      DEPENDS_ON)]

\* One depends_on edge target -> source per imports edge whose two ends have
\* concepts.
learning_edges_of(code_graph_data) ==
    LET mapped(e) ==
            /\ e.type = IMPORTS
            /\ ~Falsy(code_to_learning(code_graph_data, e.source))
            /\ ~Falsy(code_to_learning(code_graph_data, e.target))
        kept == SelectSeq(code_graph_data.edges, mapped)
    IN  [i \in 1..Len(kept) |->
            GraphEdge(code_to_learning(code_graph_data, kept[i].target),
                      code_to_learning(code_graph_data, kept[i].source), DEPENDS_ON)]

\* Entry points taken as the concepts that are the source of no edge.
entry_points_by_source(learning_nodes, learning_edges) ==
    LET sources == {e.source : e \in Range(learning_edges)}
        ids == [i \in 1..Len(learning_nodes) |-> learning_nodes[i].id]
    IN  SelectSeq(ids, LAMBDA id : id \notin sources)

\* targets = {e.target ...}; [n.id for n in learning_nodes if n.id not in targets]
entry_points_of(learning_nodes, learning_edges) ==
    LET targets == {e.target : e \in Range(learning_edges)}
        ids == [i \in 1..Len(learning_nodes) |-> learning_nodes[i].id]
    IN  SelectSeq(ids, LAMBDA id : id \notin targets)

\* LearningGraphService.construct_learning_path
construct_learning_path(code_graph_data) ==
    LET learning_nodes == learning_nodes_of(code_graph_data)
        learning_edges == learning_edges_of(code_graph_data)
    IN  LearningPath(learning_nodes, learning_edges,
                     entry_points_of(learning_nodes, learning_edges))

\* A call of construct_learning_path: the caller's CodeGraph after the call,
\* and the LearningPath returned.  The method only reads the graph.
construct_learning_path_call(code_graph_data) ==
    [code_graph_data |-> code_graph_data,
     returned |-> construct_learning_path(code_graph_data)]

-----------------------------------------------------------------------------
(* app/agents/learning_graph.py *)

LEARN_ == <<"L", "e", "a", "r", "n", " ">>

\* LearningGraphContextAgent.generate_roadmap: one concept per module node,
\* with difficulty 1 and cognitive_load 1; the edge loop is empty (pass) and the
\* path is returned with edges=[] and entry_points=[].
generate_roadmap(code_graph_data) ==
    LET modules == SelectSeq(code_graph_data.nodes, LAMBDA node : node.type = MODULE_T)
    IN  LearningPath([i \in 1..Len(modules) |->
                         LearningNode(CONCEPT_ \o modules[i].id,
                                      UNDERSTANDING_ \o modules[i].name, 1, 1,
                                      LEARN_ \o modules[i].path, <<modules[i].id>>)],
                     <<>>, <<>>)

-----------------------------------------------------------------------------
(* Requests: the CodeGraph payloads of POST /impact *)

RequestNode(id) == CodeNode(id, MODULE_T, id, id, NoMetadata)

RequestNodeLists ==
    {[i \in 1..Len(ids) |-> RequestNode(ids[i])] : ids \in SeqsUpTo(Ids, MaxNodes)}

RequestEdges == [source : Ids, target : Ids, type : {IMPORTS, DEFINES}]

SmallGraphs ==
    {CodeGraph(nodes, edges) :
        nodes \in RequestNodeLists, edges \in SeqsUpTo(RequestEdges, MaxEdges)}

\* x imports xx imports xxx ...: n modules, each importing the next.
ChainGraph(n) ==
    CodeGraph([i \in 1..n |-> RequestNode(Rep(i))],
              [i \in 1..(n - 1) |-> GraphEdge(Rep(i), Rep(i + 1), IMPORTS)])

ChainGraphs == {ChainGraph(n) : n \in 1..MaxChain}

\* A payload whose only node has the empty string as id.
EmptyIdGraph == CodeGraph(<<RequestNode(EMPTY)>>, <<>>)

RequestGraphs == SmallGraphs \cup ChainGraphs \cup {EmptyIdGraph}

NodeIds(cg) == {n.id : n \in Range(cg.nodes)}
EndpointIds(cg) == UNION {{e.source, e.target} : e \in Range(cg.edges)}
AllIds(cg) == NodeIds(cg) \cup EndpointIds(cg)

\* The queries tried on a graph: every id in it, the empty string, and "z".
QueriesFor(cg) == AllIds(cg) \cup {EMPTY, Z}

NoArgs == [none |-> TRUE]
NoResult == [none |-> TRUE]

Init ==
    /\ file_tree = <<>>
    /\ code_graph \in RequestGraphs
    /\ op = "idle"
    /\ args = NoArgs
    /\ result = NoResult
    /\ agent = NewAgent

\* POST /impact: analyze_impact -> ImpactAnalysisService.calculate_impact
AnalyzeImpact ==
    \E q \in QueriesFor(code_graph) :
        /\ op = "idle"
        /\ op' = "calculate_impact"
        /\ args' = [changed_module |-> q]
        /\ result' = calculate_impact_call(code_graph, q).returned
        /\ code_graph' = calculate_impact_call(code_graph, q).code_graph_data
        /\ UNCHANGED <<file_tree, agent>>

\* ChangeImpactAgent.analyze
ChangeImpactAnalyze ==
    \E q \in QueriesFor(code_graph) :
        /\ op = "idle"
        /\ op' = "analyze"
        /\ args' = [changed_module |-> q]
        /\ result' = analyze(q, code_graph)
        /\ UNCHANGED <<file_tree, code_graph, agent>>

\* POST /path: generate_learning_path -> construct_learning_path
ConstructLearningPath ==
    /\ op = "idle"
    /\ op' = "construct_learning_path"
    /\ result' = construct_learning_path_call(code_graph).returned
    /\ code_graph' = construct_learning_path_call(code_graph).code_graph_data
    /\ UNCHANGED <<file_tree, args, agent>>

Next == AnalyzeImpact \/ ChangeImpactAnalyze \/ ConstructLearningPath

Spec == Init /\ [][Next]_vars

-----------------------------------------------------------------------------
(* File trees: what IngestionService.parse_file_tree hands to the builders *)

\* The files of the tree that become module nodes: python files that parse.
ParsedFiles(tree) ==
    SelectSeq(tree, LAMBDA f : f.language = "python" /\ f.parses)

\* What a file imports, in ast.walk order: a module name, or None for an
\* import statement without a module name.
ImportNames == Ids \cup {None}

Files ==
    [path : Ids, language : {"python", "javascript"}, parses : BOOLEAN,
     imports : SeqsUpTo(ImportNames, MaxImports)]

\* os.walk lists every file once: the paths of a tree are distinct.
FileTrees(max_files) ==
    {tree \in SeqsUpTo(Files, max_files) :
        \A i, j \in 1..Len(tree) : i # j => tree[i].path # tree[j].path}

\* The repository create_dummy_repo writes.
APP_PY == <<"a", "p", "p", ".", "p", "y">>
UTILS_PY == <<"u", "t", "i", "l", "s", ".", "p", "y">>
ENGINE_PY ==
    <<"c", "o", "r", "e", "/", "e", "n", "g", "i", "n", "e", ".", "p", "y">>
UTILS == <<"u", "t", "i", "l", "s">>
CORE == <<"c", "o", "r", "e">>
CORE_ENGINE ==
    <<"c", "o", "r", "e", ".", "e", "n", "g", "i", "n", "e">>

PythonFile(path, imports) ==
    [path |-> path, language |-> "python", parses |-> TRUE, imports |-> imports]

\* app.py imports utils and, by "from core import engine", core (core_name =
\* CORE; CORE_ENGINE for "import core.engine").  os.walk lists the files of the
\* root ahead of those of core/, the two root files in either order.
DummyRepo(core_name, app_first) ==
    LET app == PythonFile(APP_PY, <<UTILS, core_name>>)
        utils == PythonFile(UTILS_PY, <<>>)
        engine == PythonFile(ENGINE_PY, <<>>)
    IN  IF app_first THEN <<app, utils, engine>> ELSE <<utils, app, engine>>

DummyRepos ==
    {DummyRepo(core_name, app_first) :
        core_name \in {CORE, CORE_ENGINE}, app_first \in BOOLEAN}

EmptyGraph == CodeGraph(<<>>, <<>>)

InitBuild ==
    /\ file_tree \in FileTrees(Cardinality(Ids)) \cup DummyRepos
    /\ code_graph = EmptyGraph
    /\ op = "idle"
    /\ args = NoArgs
    /\ result = NoResult
    /\ agent = NewAgent

\* CodeIntelligenceAgent.build_graph(file_tree, root_path)
BuildGraph ==
    \E n_embeddings \in {0, Len(agent_parse_files(file_tree, Len(file_tree)).nodes)} :
        /\ op = "idle"
        /\ op' = "build_graph"
        /\ args' = [n_embeddings |-> n_embeddings]
        /\ agent' = build_graph_call(agent, file_tree, n_embeddings).self
        /\ code_graph' = build_graph_call(agent, file_tree, n_embeddings).returned
        /\ result' = code_graph'
        /\ UNCHANGED file_tree

\* A second build_graph of the same files, on the same instance or on a fresh
\* one; code_graph keeps what the first call returned.
BuildGraphAgain ==
    \E fresh \in BOOLEAN,
       n_embeddings \in {0, Len(agent_parse_files(file_tree, Len(file_tree)).nodes)} :
        LET self == IF fresh THEN NewAgent ELSE agent
        IN  /\ op = "build_graph"
            /\ op' = "build_graph_again"
            /\ args' = [n_embeddings |-> n_embeddings, fresh |-> fresh]
            /\ agent' = build_graph_call(self, file_tree, n_embeddings).self
            /\ result' = build_graph_call(self, file_tree, n_embeddings).returned
            /\ UNCHANGED <<file_tree, code_graph>>

\* POST /impact with the graph the builder returned.
AnalyzeBuiltGraph ==
    \E q \in QueriesFor(code_graph) :
        /\ op = "build_graph"
        /\ op' = "calculate_impact"
        /\ args' = [changed_module |-> q]
        /\ result' = calculate_impact_call(code_graph, q).returned
        /\ code_graph' = calculate_impact_call(code_graph, q).code_graph_data
        /\ UNCHANGED <<file_tree, agent>>

NextBuild == BuildGraph \/ BuildGraphAgain \/ AnalyzeBuiltGraph

SpecBuild == InitBuild /\ [][NextBuild]_vars

-----------------------------------------------------------------------------
(* Source files: what the service's builder reads from disk *)

F == <<"f">>
FunctionNames == {F}

\* The nodes ast.walk yields that the builder looks at.  ast.walk goes breadth
\* first: the statements of the module body ahead of everything nested.
WalkItems ==
    [kind : {"Import"}, name : ImportNames, nested : {FALSE}]
        \cup [kind : {"FunctionDef"}, name : FunctionNames, nested : BOOLEAN]
        \cup [kind : {"ClassDef"}, name : FunctionNames, nested : {FALSE}]

Walks ==
    {w \in SeqsUpTo(WalkItems, MaxWalk) :
        \A i, j \in 1..Len(w) : (i < j /\ w[i].nested) => w[j].nested}

\* len(content.splitlines()) of a file that parses.  Imports can share a line,
\* every def and class starts a line of its own.
Locs == {0, 120}

MinLoc(walk) ==
    LET defs == Cardinality({i \in 1..Len(walk) : walk[i].kind # "Import"})
    IN  IF defs > 0 THEN defs ELSE IF walk # <<>> THEN 1 ELSE 0

\* A file that cannot be parsed has no content the builder sees; a file of
\* another language is either that or an empty file, which ast.parse accepts.
SourceFiles ==
    {f \in [path : Ids, language : {"python"}, parses : {TRUE}, loc : Locs,
            walk : Walks] : f.loc >= MinLoc(f.walk)}
        \cup [path : Ids, language : {"python", "javascript"}, parses : {FALSE},
              loc : {0}, walk : {<<>>}]
        \cup [path : Ids, language : {"javascript"}, parses : {TRUE},
              loc : {0}, walk : {<<>>}]

SourceTrees(max_files) ==
    {tree \in SeqsUpTo(SourceFiles, max_files) :
        \A i, j \in 1..Len(tree) : i # j => tree[i].path # tree[j].path}

InitService ==
    /\ file_tree \in SourceTrees(Cardinality(Ids))
    /\ code_graph = EmptyGraph
    /\ op = "idle"
    /\ args = NoArgs
    /\ result = NoResult
    /\ agent = NewAgent

\* CodeIntelligenceService.build_dependency_graph(file_tree, root_path)
BuildDependencyGraph ==
    /\ op = "idle"
    /\ op' = "build_dependency_graph"
    /\ code_graph' = build_dependency_graph(file_tree)
    /\ result' = code_graph'
    /\ UNCHANGED <<file_tree, args, agent>>

\* The names a file's Import and ImportFrom nodes carry, in ast.walk order.
imports_of(walk) ==
    LET items == SelectSeq(walk, LAMBDA item : item.kind = "Import")
    IN  [i \in 1..Len(items) |-> items[i].name]

\* The same files as the agent's builder sees them: it looks at imports only.
AgentTree(tree) ==
    [i \in 1..Len(tree) |->
        [path |-> tree[i].path, language |-> tree[i].language,
         parses |-> tree[i].parses, imports |-> imports_of(tree[i].walk)]]

\* CodeIntelligenceAgent.build_graph(file_tree, root_path) on the same files
AgentBuildGraph ==
    \E n_embeddings \in {0, Len(ParsedFiles(file_tree))} :
        /\ op = "idle"
        /\ op' = "build_graph"
        /\ args' = [n_embeddings |-> n_embeddings]
        /\ agent' = build_graph_call(agent, AgentTree(file_tree), n_embeddings).self
        /\ code_graph'
               = build_graph_call(agent, AgentTree(file_tree), n_embeddings).returned
        /\ result' = code_graph'
        /\ UNCHANGED file_tree

NextService == BuildDependencyGraph \/ AgentBuildGraph

SpecService == InitService /\ [][NextService]_vars

-----------------------------------------------------------------------------
(* Requests: the CodeGraph payloads of POST /path *)

NodeTypes == {MODULE_T, CLASS_T, FUNCTION_T, CONCEPT_T}

TypedNodes == {CodeNode(id, type, id, id, NoMetadata) : id \in Ids, type \in NodeTypes}

\* Every CodeGraph of up to max_nodes typed nodes and max_edges edges.
TypedGraphs(max_nodes, max_edges) ==
    [nodes : SeqsUpTo(TypedNodes, max_nodes),
     edges : SeqsUpTo(RequestEdges, max_edges)]

\* One module of the given metadata with n imports, of n different names when
\* distinct and n times the same name otherwise.
FanGraph(metadata, n, distinct) ==
    CodeGraph(<<CodeNode(A, MODULE_T, A, A, metadata)>>,
              [i \in 1..n |->
                  GraphEdge(A, IF distinct THEN Rep(i + 1) ELSE AB, IMPORTS)])

FanGraphs ==
    {FanGraph(metadata, n, distinct) :
        metadata \in {NoMetadata} \cup [loc : 0..MaxLoc],
        n \in 0..MaxDeps, distinct \in BOOLEAN}

\* The import chain of n modules closed to a ring: the last imports the first.
RingGraph(n) ==
    CodeGraph(ChainGraph(n).nodes,
              Append(ChainGraph(n).edges, GraphEdge(Rep(n), Rep(1), IMPORTS)))

RingGraphs == {RingGraph(n) : n \in 1..MaxChain}

LearningGraphs(max_nodes, max_edges) ==
    TypedGraphs(max_nodes, max_edges) \cup FanGraphs \cup ChainGraphs
        \cup RingGraphs

InitLearn ==
    /\ file_tree = <<>>
    /\ code_graph \in LearningGraphs(MaxNodes, MaxEdges)
    /\ op = "idle"
    /\ args = NoArgs
    /\ result = NoResult
    /\ agent = NewAgent

\* LearningGraphContextAgent.generate_roadmap(code_graph)
GenerateRoadmap ==
    /\ op = "idle"
    /\ op' = "generate_roadmap"
    /\ result' = generate_roadmap(code_graph)
    /\ UNCHANGED <<file_tree, code_graph, args, agent>>

NextLearn == ConstructLearningPath \/ GenerateRoadmap

SpecLearn == InitLearn /\ [][NextLearn]_vars

-----------------------------------------------------------------------------
(* The risk label as a function of fan-in and fan-out *)

InitRisk ==
    /\ file_tree = <<>>
    /\ code_graph = EmptyGraph
    /\ op = "idle"
    /\ args \in [fan_in : 0..MaxFan, fan_out : 0..MaxFan]
    /\ result = NoResult
    /\ agent = NewAgent

\* CodeIntelligenceAgent._calculate_risk(fan_in, fan_out)
CalculateRisk ==
    /\ op = "idle"
    /\ op' = "_calculate_risk"
    /\ result' = [risk_score |-> _calculate_risk(args.fan_in, args.fan_out)]
    /\ UNCHANGED <<file_tree, code_graph, args, agent>>

NextRisk == CalculateRisk

SpecRisk == InitRisk /\ [][NextRisk]_vars

-----------------------------------------------------------------------------
(* Properties of impact analysis *)

\* The (source, target) pairs of the CodeGraph's edges of the given types.
EdgePairs(cg, types) ==
    {<<e.source, e.target>> : e \in {x \in Range(cg.edges) : x.type \in types}}

\* Everything reachable from the set S along pairs of E, S included.
RECURSIVE Grow(_, _)
Grow(E, S) ==
    LET S2 == S \cup {e[2] : e \in {x \in E : x[1] \in S}}
    IN  IF S2 = S THEN S ELSE Grow(E, S2)

\* There is a directed path of one or more edges of the given types from n to t.
HasPath(cg, types, n, t) ==
    LET E == EdgePairs(cg, types)
    IN  t \in Grow(E, {e[2] : e \in {x \in E : x[1] = n}})

\* The ids other than t from which t is reachable.
Dependents(cg, types, t) ==
    {n \in AllIds(cg) \ {t} : HasPath(cg, types, n, t)}

AnyType == {IMPORTS, DEFINES}

Count(seq, x) == Cardinality({i \in 1..Len(seq) : seq[i] = x})

Resolved == op = "calculate_impact" /\ result # NotFound

\* C1: the ids calculate_impact returns in affected_modules, other than the
\* target, are exactly the ids with a directed path of one or more edges to the
\* target; on the chain x -> xx -> xxx the set for xxx is {x, xx} and the set
\* for x is empty.
C1_AncestorsExact ==
    Resolved =>
        /\ Range(result.affected_modules) \ {result.target_node}
               = Dependents(code_graph, AnyType, result.target_node)
        /\ (code_graph = ChainGraph(3) /\ args.changed_module = Rep(3))
               => Range(result.affected_modules) \ {Rep(3)} = {Rep(1), Rep(2)}
        /\ (code_graph = ChainGraph(3) /\ args.changed_module = Rep(1))
               => Range(result.affected_modules) \ {Rep(1)} = {}

C1_Witness ==
    /\ Resolved
    /\ code_graph = ChainGraph(3)
    /\ args.changed_module = Rep(3)
    /\ result.target_node = Rep(3)
    /\ Range(result.affected_modules) = {Rep(1), Rep(2), Rep(3)}

\* C2: whenever some node id of the graph equals the query, the resolved
\* target is that node, even when an earlier node only contains the query.
C2_ExactMatchPreferred ==
    (Resolved /\ args.changed_module \in NodeIds(code_graph))
        => result.target_node = args.changed_module

\* C3: every affected id other than the target reaches the target along
\* imports edges alone.
C3_ImportsEdgesOnly ==
    Resolved =>
        Range(result.affected_modules) \ {result.target_node}
            \subseteq Dependents(code_graph, {IMPORTS}, result.target_node)

\* a -> ab -> a: two modules importing each other.
CycleGraph ==
    CodeGraph(<<RequestNode(A), RequestNode(AB)>>,
              <<GraphEdge(A, AB, IMPORTS), GraphEdge(AB, A, IMPORTS)>>)

\* C4: ChangeImpactAgent._calculate_impact returns, for every graph (cycles
\* and self-loops included), a list without repetition that does not hold the
\* target and is no longer than the other nodes of the graph; on the cycle
\* a -> ab -> a with query a the result is exactly {ab}.
C4_AgentCycleSafe ==
    op = "analyze" =>
        LET t == agent_target(agent_reconstruct_graph(code_graph), args.changed_module)
        IN  /\ \A x \in Range(result.affected) : Count(result.affected, x) = 1
            /\ t \notin Range(result.affected)
            /\ Len(result.affected) < Cardinality(AllIds(code_graph) \cup {t})
            /\ (code_graph = CycleGraph /\ args.changed_module = A)
                   => result.affected = <<AB>>

C4_Witness ==
    /\ op = "analyze"
    /\ code_graph = CycleGraph
    /\ args.changed_module = A
    /\ result.affected = <<AB>>

\* C5: when a target is resolved, affected_modules holds the target exactly
\* once and impact_radius is the number of distinct ancestors plus one.
C5_SelfIncludedOnce ==
    Resolved =>
        /\ Count(result.affected_modules, result.target_node) = 1
        /\ result.impact_radius
               = Cardinality(Dependents(code_graph, AnyType, result.target_node)) + 1

C5_Witness ==
    /\ Resolved
    /\ code_graph = CycleGraph
    /\ result.target_node = A
    /\ Count(result.affected_modules, A) = 1
    /\ result.impact_radius = 2

\* The query equals or is contained in the id of an entry of the node list.
MatchesListedNode(cg, q) == \E id \in NodeIds(cg) : q = id \/ IsSubstring(q, id)

\* C6: calculate_impact returns the not-found outcome exactly when no node id
\* equals or contains the query.
C6_NotFoundExactly ==
    op = "calculate_impact" =>
        (result = NotFound <=> ~MatchesListedNode(code_graph, args.changed_module))

\* The graph whose only node is q: the target exists and has no dependents.
LoneNodeGraph(q) == CodeGraph(<<RequestNode(q)>>, <<>>)

\* C7: when the query matches no node, what analyze returns differs from what
\* it returns for a target that exists and has no dependents.
C7_AgentNotFoundDistinct ==
    (/\ op = "analyze"
     /\ args.changed_module # EMPTY
     /\ agent_target(agent_reconstruct_graph(code_graph), args.changed_module) = None)
        => result # analyze(args.changed_module, LoneNodeGraph(args.changed_module))

-----------------------------------------------------------------------------
(* Properties of the risk levels and of the metrics *)

\* C8: risk_level is LOW for a radius of at most 5, MEDIUM for 6 to 20 and HIGH
\* above 20, the radius being impact_radius, the size of the affected set with
\* the target in it.
C8_RiskFromRadius ==
    Resolved =>
        LET radius == Cardinality(Range(result.affected_modules))
        IN  /\ result.target_node \in Range(result.affected_modules)
            /\ result.impact_radius = radius
            /\ radius <= 5 => result.risk_level = "LOW"
            /\ (6 <= radius /\ radius <= 20) => result.risk_level = "MEDIUM"
            /\ radius > 20 => result.risk_level = "HIGH"

C8_Witness ==
    /\ Resolved
    /\ result.impact_radius = 21
    /\ result.risk_level = "HIGH"

\* C9: _calculate_risk returns the first matching label: critical if fan_in > 5
\* and fan_out > 5, else high if fan_in > 3, else medium if fan_out > 5, else
\* low; fan_in > 3 gives high also when fan_out > 5.
C9_RiskFirstMatch ==
    op = "_calculate_risk" =>
        LET fi == args.fan_in
            fo == args.fan_out
            r == result.risk_score
        IN  /\ (fi > 5 /\ fo > 5) => r = "critical"
            /\ (fi > 3 /\ ~(fi > 5 /\ fo > 5)) => r = "high"
            /\ (fi <= 3 /\ fo > 5) => r = "medium"
            /\ (fi <= 3 /\ fo <= 5) => r = "low"
            /\ (fi = 6 /\ fo = 6) => r = "critical"
            /\ (fi = 4 /\ fo = 0) => r = "high"
            /\ (fi = 0 /\ fo = 6) => r = "medium"
            /\ (fi = 1 /\ fo = 1) => r = "low"

C9_Witness ==
    /\ op = "_calculate_risk"
    /\ args.fan_in = 4
    /\ args.fan_out = 6
    /\ result.risk_score = "high"

\* The distinct ids importing id, and the distinct ids id imports, read off
\* the edge list.
ImportSources(edges, id) ==
    {e.source : e \in {x \in Range(edges) : x.type = IMPORTS /\ x.target = id}}
ImportTargets(edges, id) ==
    {e.target : e \in {x \in Range(edges) : x.type = IMPORTS /\ x.source = id}}

\* The file tree with every repeated import of a file dropped.
WithoutRepeatedImports(tree) ==
    [i \in 1..Len(tree) |-> [tree[i] EXCEPT !.imports = InsertionOrder(@)]]

Metrics(graph) == [i \in 1..Len(graph.nodes) |-> graph.nodes[i].metadata.metrics]

\* C10: after build_graph each listed node's fan_in is the number of distinct
\* ids with an imports edge to it and its fan_out the number of distinct ids it
\* imports; repeating an import in a file changes neither.
C10_DistinctFanInOut ==
    op = "build_graph" =>
        /\ \A i \in 1..Len(result.nodes) :
              LET node == result.nodes[i]
              IN  /\ node.metadata.metrics.fan_in
                         = Cardinality(ImportSources(result.edges, node.id))
                  /\ node.metadata.metrics.fan_out
                         = Cardinality(ImportTargets(result.edges, node.id))
        /\ Metrics(result)
               = Metrics(build_graph(WithoutRepeatedImports(file_tree), args.n_embeddings))

\* A file imports the same existing module twice: two parallel edges, fan_in 1.
C10_Witness ==
    /\ op = "build_graph"
    /\ \E i \in 1..Len(result.nodes) :
          LET node == result.nodes[i]
          IN  /\ \E j, k \in 1..Len(result.edges) :
                    /\ j # k
                    /\ result.edges[j] = result.edges[k]
                    /\ result.edges[j].target = node.id
                    /\ result.edges[j].source # node.id
              /\ node.metadata.metrics.fan_in = 1

RiskLabels == {"critical", "high", "medium", "low"}

\* C11: after build_graph every import of a parsed file is an imports edge
\* source -> name, also when no node has that name; the node list holds the
\* parsed files' modules and nothing else, so a name without a node gets no
\* entry and no metrics; and every listed node carries its metrics and a risk
\* label.
C11_DanglingImportKept ==
    op = "build_graph" =>
        LET parsed == ParsedFiles(file_tree)
        IN  /\ \A i \in 1..Len(parsed) : \A k \in 1..Len(parsed[i].imports) :
                  parsed[i].imports[k] # None =>
                      GraphEdge(parsed[i].path, parsed[i].imports[k], IMPORTS)
                          \in Range(result.edges)
            /\ [i \in 1..Len(result.nodes) |-> result.nodes[i].id]
                   = [i \in 1..Len(parsed) |-> parsed[i].path]
            /\ \A i \in 1..Len(result.nodes) :
                  LET metadata == result.nodes[i].metadata
                  IN  /\ metadata.risk_score \in RiskLabels
                      /\ metadata.metrics.fan_in \in 0..Len(result.edges)
                      /\ metadata.metrics.fan_out \in 0..Len(result.edges)

\* A parsed file imports a name no node has; the edge is in the built graph.
C11_Witness ==
    /\ op = "build_graph"
    /\ Len(result.nodes) > 0
    /\ \E e \in Range(result.edges) :
          /\ e.type = IMPORTS
          /\ e.target \notin NodeIds(result)
          /\ e.source \in NodeIds(result)

\* C12: in the graph build_dependency_graph returns no two entries of the node
\* list have the same id, whatever the file tree.
C12_NodeIdsDistinct ==
    op = "build_dependency_graph" =>
        \A i, j \in 1..Len(result.nodes) :
            i # j => result.nodes[i].id # result.nodes[j].id

-----------------------------------------------------------------------------
(* Properties of the learning path *)

Learned == op = "construct_learning_path"

ModuleIds(cg) == {n.id : n \in {x \in Range(cg.nodes) : x.type = MODULE_T}}

\* The imports edges A -> B, A different from B, between two module nodes.
ModuleImports(cg) ==
    SelectSeq(cg.edges,
              LAMBDA e : /\ e.type = IMPORTS
                         /\ e.source # e.target
                         /\ e.source \in ModuleIds(cg)
                         /\ e.target \in ModuleIds(cg))

\* C13: the depends_on edges of the path are, in edge order, one edge
\* concept(B) -> concept(A) per imports edge A -> B with A different from B
\* whose two ends are module nodes, and nothing else.
C13_DependsOnPerImport ==
    Learned =>
        result.edges
            = [i \in 1..Len(ModuleImports(code_graph)) |->
                  GraphEdge(CONCEPT_ \o ModuleImports(code_graph)[i].target,
                            CONCEPT_ \o ModuleImports(code_graph)[i].source,
                            DEPENDS_ON)]

\* C14: a self-import makes no depends_on edge, and a module node whose only
\* import is itself has its concept in entry_points.
C14_SelfImportIgnored ==
    Learned =>
        /\ \A e \in Range(result.edges) : e.source # e.target
        /\ \A m \in ModuleIds(code_graph) :
              ImportTargets(code_graph.edges, m) = {m}
                  => CONCEPT_ \o m \in Range(result.entry_points)

\* Modules util (a) and core (ab): core imports util, nothing imports core.
UtilCoreGraph ==
    CodeGraph(<<RequestNode(A), RequestNode(AB)>>, <<GraphEdge(AB, A, IMPORTS)>>)

\* The entries of seq that are not in S, in order.
RECURSIVE Without(_, _)
Without(seq, S) ==
    IF seq = <<>> THEN <<>>
    ELSE IF Head(seq) \in S THEN Without(Tail(seq), S)
    ELSE <<Head(seq)>> \o Without(Tail(seq), S)

\* C15: entry_points is the list, in node order, of the concept ids that are
\* the target of no returned depends_on edge; for util and core with core
\* importing util it is [concept_util]; and when every module node imports a
\* module node it is empty.
C15_EntryPointsExact ==
    Learned =>
        /\ result.entry_points
               = Without([i \in 1..Len(result.nodes) |-> result.nodes[i].id],
                         {result.edges[i].target : i \in 1..Len(result.edges)})
        /\ code_graph = UtilCoreGraph => result.entry_points = <<CONCEPT_ \o A>>
        /\ (\A m \in ModuleIds(code_graph) :
               ImportTargets(code_graph.edges, m) \cap ModuleIds(code_graph) # {})
               => result.entry_points = <<>>

\* The path of a two-module import cycle: two concepts, no entry point.
C15_Witness ==
    /\ Learned
    /\ ModuleIds(code_graph) = {A, AB}
    /\ AB \in ImportTargets(code_graph.edges, A)
    /\ A \in ImportTargets(code_graph.edges, AB)
    /\ Len(result.nodes) = 2
    /\ result.entry_points = <<>>

\* The number of module nodes among the first i entries of the node list.
ModulesUpTo(cg, i) == Cardinality({j \in 1..i : cg.nodes[j].type = MODULE_T})

\* C16: the concepts of the path are one per module node of the input, in
\* node-list order, the concept of module m having id concept_m and
\* related_code_nodes [m]; function, class and concept nodes get none.
C16_OneConceptPerModule ==
    Learned =>
        /\ Len(result.nodes) = ModulesUpTo(code_graph, Len(code_graph.nodes))
        /\ \A i \in 1..Len(code_graph.nodes) :
              code_graph.nodes[i].type = MODULE_T =>
                  LET concept == result.nodes[ModulesUpTo(code_graph, i)]
                  IN  /\ concept.id = CONCEPT_ \o code_graph.nodes[i].id
                      /\ concept.related_code_nodes = <<code_graph.nodes[i].id>>

\* A node list with a node that is no module ahead of a module: one concept.
C16_Witness ==
    /\ Learned
    /\ Len(code_graph.nodes) = 2
    /\ code_graph.nodes[1].type # MODULE_T
    /\ code_graph.nodes[2].type = MODULE_T
    /\ Len(result.nodes) = 1
    /\ result.nodes[1].id = CONCEPT_ \o code_graph.nodes[2].id

\* The module nodes of the input, in node-list order: the i-th has the i-th
\* concept of the path (C16).
Modules(cg) == SelectSeq(cg.nodes, LAMBDA n : n.type = MODULE_T)

HasLoc(node) == "loc" \in DOMAIN node.metadata

FanOut(cg, id) == Cardinality(ImportTargets(cg.edges, id))

\* C18: cognitive_load = min(10, max(1, difficulty + floor(fan_out / 2))) with
\* fan_out the number of distinct imports targets of the module, so that a
\* repeated import does not raise it; it is within 1..10.
C18_CognitiveLoadDistinctFanOut ==
    Learned =>
        \A i \in 1..Len(result.nodes) :
            LET concept == result.nodes[i]
                fan_out == FanOut(code_graph, Modules(code_graph)[i].id)
                load == concept.difficulty + (fan_out \div 2)
            IN  /\ concept.cognitive_load \in 1..10
                /\ concept.cognitive_load
                       = (IF load > 10 THEN 10 ELSE IF load < 1 THEN 1 ELSE load)

StripLoc(cg) ==
    [cg EXCEPT !.nodes = [i \in 1..Len(cg.nodes) |->
                             [cg.nodes[i] EXCEPT !.metadata = NoMetadata]]]

\* C19: a concept's description contains " (Beginner Safe)" exactly when its
\* difficulty is at most 3 and its module imports at most 2 distinct ids; and
\* the graph with the line counts removed gives the same depends_on edges and
\* entry_points.
C19_BeginnerSafeMarker ==
    Learned =>
        /\ \A i \in 1..Len(result.nodes) :
              IsSubstring(BEGINNER_SAFE, result.nodes[i].description)
                  <=> (/\ result.nodes[i].difficulty <= 3
                       /\ FanOut(code_graph, Modules(code_graph)[i].id) <= 2)
        /\ construct_learning_path(StripLoc(code_graph)).edges = result.edges
        /\ construct_learning_path(StripLoc(code_graph)).entry_points
               = result.entry_points

-----------------------------------------------------------------------------
(* The three-file repository *)

NodeOf(cg, id) == CHOOSE n \in Range(cg.nodes) : n.id = id

\* C20: for the repository of app.py, utils.py and core/engine.py the built
\* graph has 3 module nodes and 2 imports edges, app.py has the risk label
\* low, and the impact analysis of the query "utils" finds a target and
\* reports, besides the target, app.py and nothing else.
C20_ThreeFileScenario ==
    (op = "calculate_impact" /\ file_tree \in DummyRepos
        /\ args.changed_module = UTILS) =>
        /\ Len(code_graph.nodes) = 3
        /\ \A n \in Range(code_graph.nodes) : n.type = MODULE_T
        /\ Len(SelectSeq(code_graph.edges, LAMBDA e : e.type = IMPORTS)) = 2
        /\ NodeOf(code_graph, APP_PY).metadata.risk_score = "low"
        /\ result # NotFound
        /\ Range(result.affected_modules) \ {result.target_node} = {APP_PY}

-----------------------------------------------------------------------------
(* Properties of the service's builder *)

Built == op = "build_dependency_graph"

\* The entries of the node list that carry the given path, and the edges that
\* start at it: what the file of that path contributed.
NodesOfFile(cg, path) == SelectSeq(cg.nodes, LAMBDA n : n.path = path)
EdgesOfFile(cg, path) == SelectSeq(cg.edges, LAMBDA e : e.source = path)

\* C21: build_dependency_graph returns, for each python file that parses,
\* exactly one module node, whose id is the file's relative path, and for a
\* file of another language no node and no edge.
C21_OneModulePerPythonFile ==
    Built =>
        \A i \in 1..Len(file_tree) :
            LET file == file_tree[i]
                modules == SelectSeq(result.nodes,
                                     LAMBDA n : n.type = MODULE_T /\ n.id = file.path)
            IN  /\ (file.language = "python" /\ file.parses) => Len(modules) = 1
                /\ file.language # "python" =>
                      /\ NodesOfFile(result, file.path) = <<>>
                      /\ EdgesOfFile(result, file.path) = <<>>
                      /\ modules = <<>>

\* A python file and an empty file of another language: one module node.
C21_Witness ==
    /\ Built
    /\ Len(file_tree) = 2
    /\ file_tree[1].language = "javascript" /\ file_tree[1].parses
    /\ file_tree[2].language = "python" /\ file_tree[2].parses
    /\ Len(SelectSeq(result.nodes, LAMBDA n : n.type = MODULE_T)) = 1
    /\ result.nodes[1].id = file_tree[2].path

\* The tree without the files that cannot be read or parsed.
WithoutFailing(tree) ==
    SelectSeq(tree, LAMBDA f : ~(f.language = "python" /\ ~f.parses))

\* C22: a python file that cannot be read or parsed contributes no node and
\* no edge to the graph of either builder, and the graph is the one the
\* builder returns for the tree without such files.
C22_FailingFileIsolated ==
    /\ Built =>
          /\ result = build_dependency_graph(WithoutFailing(file_tree))
          /\ \A i \in 1..Len(file_tree) :
                (file_tree[i].language = "python" /\ ~file_tree[i].parses) =>
                    /\ NodesOfFile(result, file_tree[i].path) = <<>>
                    /\ EdgesOfFile(result, file_tree[i].path) = <<>>
    /\ op = "build_graph" =>
          /\ result = build_graph(AgentTree(WithoutFailing(file_tree)),
                                  args.n_embeddings)
          /\ \A i \in 1..Len(file_tree) :
                (file_tree[i].language = "python" /\ ~file_tree[i].parses) =>
                    /\ NodesOfFile(result, file_tree[i].path) = <<>>
                    /\ EdgesOfFile(result, file_tree[i].path) = <<>>

\* A file that fails ahead of one that parses and imports: the graph holds
\* the second file's node and edge only.
C22_Witness ==
    /\ Built
    /\ Len(file_tree) = 2
    /\ file_tree[1].language = "python" /\ ~file_tree[1].parses
    /\ file_tree[2].language = "python" /\ file_tree[2].parses
    /\ Len(result.nodes) = 1
    /\ Len(result.edges) = 1

\* The function and class declarations of a walk that are at the top level
\* of the module, in order.
TopLevelDeclarations(walk) ==
    SelectSeq(walk, LAMBDA item : item.kind # "Import" /\ ~item.nested)

DeclaredType(item) == IF item.kind = "ClassDef" THEN CLASS_T ELSE FUNCTION_T

\* C23: the nodes of a parsed file other than its module node are one per
\* top-level function or class declaration, in order, with id
\* <module id>::<name>, each with one defines edge from the module node; a
\* nested declaration gets no node.
C23_TopLevelDeclarationsOnly ==
    Built =>
        \A i \in 1..Len(file_tree) :
            (file_tree[i].language = "python" /\ file_tree[i].parses) =>
                LET path == file_tree[i].path
                    declared == TopLevelDeclarations(file_tree[i].walk)
                    emitted == SelectSeq(NodesOfFile(result, path),
                                         LAMBDA n : n.type # MODULE_T)
                IN  /\ Len(emitted) = Len(declared)
                    /\ \A k \in 1..Len(declared) :
                          /\ emitted[k].id = func_id_of(path, declared[k].name)
                          /\ emitted[k].type = DeclaredType(declared[k])
                    /\ SelectSeq(EdgesOfFile(result, path),
                                 LAMBDA e : e.type = DEFINES)
                           = [k \in 1..Len(declared) |->
                                 GraphEdge(path, func_id_of(path, declared[k].name),
                                           DEFINES)]

-----------------------------------------------------------------------------
(* Repeated builds *)

\* What a run of build_graph is compared on: the node order, and each node's
\* fan_in, fan_out and risk label.
Classified(graph) ==
    [i \in 1..Len(graph.nodes) |->
        [id |-> graph.nodes[i].id,
         metrics |-> graph.nodes[i].metadata.metrics,
         risk_score |-> graph.nodes[i].metadata.risk_score]]

\* C24: a second build_graph of the same files, on the same instance or on a
\* fresh one, returns the node order, the edges and the fan_in, fan_out and
\* risk label of every node that the first returned.
C24_BuildGraphRepeatable ==
    op = "build_graph_again" =>
        /\ Classified(result) = Classified(code_graph)
        /\ result.edges = code_graph.edges

\* The same instance builds a graph of two nodes and an edge a second time.
C24_Witness ==
    /\ op = "build_graph_again"
    /\ ~args.fresh
    /\ Len(result.nodes) = 2
    /\ Len(result.edges) > 0

-----------------------------------------------------------------------------
(* The analyses and their input *)

\* C25: a call of calculate_impact or of construct_learning_path leaves the
\* CodeGraph it was given as it was: the same node list, metadata and edge
\* list after the call as before, whatever the call returns.
C25_InputGraphUnchanged ==
    [][op' \in {"calculate_impact", "construct_learning_path"}
           => code_graph' = code_graph]_vars

\* A call on a graph with nodes and edges that returned not-found.
C25_Witness ==
    /\ op = "calculate_impact"
    /\ result = NotFound
    /\ Len(code_graph.nodes) > 0
    /\ Len(code_graph.edges) > 0

\* What two learning paths are compared on: the concepts with their
\* difficulty and cognitive_load, the depends_on edges and the entry points.
Roadmap(path) ==
    [concepts |-> [i \in 1..Len(path.nodes) |->
                      [id |-> path.nodes[i].id,
                       difficulty |-> path.nodes[i].difficulty,
                       cognitive_load |-> path.nodes[i].cognitive_load]],
     edges |-> path.edges,
     entry_points |-> path.entry_points]

\* C26: generate_roadmap returns the learning path construct_learning_path
\* returns for the same code graph: the same concepts with the same
\* difficulty and cognitive_load, the same depends_on edges and entry_points.
C26_RoadmapSameAsService ==
    op = "generate_roadmap" =>
        Roadmap(result) = Roadmap(construct_learning_path(code_graph))

\* C27: for a graph and a query the service and the agent resolve the same
\* target; the service's affected_modules are, as a set, the agent's list plus
\* the target; and the service returns not-found exactly when the agent finds
\* no target.
C27_ServiceAndAgentAgree ==
    op = "calculate_impact" =>
        LET G == agent_reconstruct_graph(code_graph)
            target == agent_target(G, args.changed_module)
            affected == _calculate_impact(code_graph, args.changed_module)
        IN  /\ (result = NotFound) <=> Falsy(target)
            /\ result # NotFound =>
                  /\ result.target_node = target
                  /\ Range(result.affected_modules) = Range(affected) \cup {target}

\* A query that is a proper substring of the id both resolve to, with a
\* dependent.
C27_Witness ==
    /\ op = "calculate_impact"
    /\ result # NotFound
    /\ result.target_node # args.changed_module
    /\ args.changed_module # EMPTY
    /\ Len(_calculate_impact(code_graph, args.changed_module)) > 0

\* C28: the target calculate_impact resolves is the id of an entry of the
\* node list; a query that matches only an id that occurs as an edge endpoint
\* and has no node entry gets not-found.
C28_TargetIsListedNode ==
    op = "calculate_impact" =>
        /\ result # NotFound => result.target_node \in NodeIds(code_graph)
        /\ ~MatchesListedNode(code_graph, args.changed_module) => result = NotFound

ConceptIds(path) == {n.id : n \in Range(path.nodes)}

DistinctModuleIds(cg) ==
    \A i, j \in 1..Len(cg.nodes) :
        (i # j /\ cg.nodes[i].type = MODULE_T /\ cg.nodes[j].type = MODULE_T)
            => cg.nodes[i].id # cg.nodes[j].id

\* C29: in the path returned for a graph whose module ids are distinct, both
\* ends of every depends_on edge and every entry point are ids of concepts of
\* the path, no two concepts share an id, and no entry point is listed twice.
C29_PathRefersToItsConcepts ==
    (Learned /\ DistinctModuleIds(code_graph)) =>
        /\ \A e \in Range(result.edges) :
              /\ e.source \in ConceptIds(result)
              /\ e.target \in ConceptIds(result)
              /\ e.type = DEPENDS_ON
        /\ Range(result.entry_points) \subseteq ConceptIds(result)
        /\ Cardinality(ConceptIds(result)) = Len(result.nodes)
        /\ Cardinality(Range(result.entry_points)) = Len(result.entry_points)

\* Two modules with an imports edge and a defines edge: one depends_on edge,
\* one entry point.
C29_Witness ==
    /\ Learned
    /\ DistinctModuleIds(code_graph)
    /\ Len(result.nodes) = 2
    /\ Len(code_graph.edges) = 2
    /\ \E e \in Range(code_graph.edges) : e.type = DEFINES
    /\ Len(result.edges) = 1
    /\ Len(result.entry_points) = 1

\* The graph of the imports edges between module nodes.
ModuleImportGraph(cg) ==
    CodeGraph(cg.nodes,
              SelectSeq(cg.edges,
                        LAMBDA e : /\ e.type = IMPORTS
                                   /\ e.source \in ModuleIds(cg)
                                   /\ e.target \in ModuleIds(cg)))

\* No module reaches itself along imports edges between modules.
AcyclicImports(cg) ==
    \A m \in ModuleIds(cg) : ~HasPath(ModuleImportGraph(cg), {IMPORTS}, m, m)

\* C30: for a graph with a module node whose module-to-module imports have
\* no cycle and no self-import, entry_points is not empty; entry_points is
\* empty only when there is no module or every module imports a module.
C30_AcyclicHasEntryPoint ==
    Learned =>
        /\ (ModuleIds(code_graph) # {} /\ AcyclicImports(code_graph))
               => result.entry_points # <<>>
        /\ result.entry_points = <<>> =>
              \/ ModuleIds(code_graph) = {}
              \/ \A m \in ModuleIds(code_graph) :
                    ImportTargets(code_graph.edges, m) \cap ModuleIds(code_graph) # {}

\* The import chain of three modules: the last, which imports nothing, is the
\* one entry point.
C30_Witness ==
    /\ Learned
    /\ code_graph = ChainGraph(3)
    /\ AcyclicImports(code_graph)
    /\ result.entry_points = <<CONCEPT_ \o Rep(3)>>

====
